---- MODULE Spec2Model ----
(***************************************************************************)
(* Model of src/src/learning/nnet.rs: a feed-forward network that keeps    *)
(* the parameters of all its layers in one flat vector.                    *)
(*                                                                         *)
(* Numbers are integers.  The layers, the cost function and the optimizer  *)
(* live outside nnet.rs; the Linear layer, the identity activation and the *)
(* squared-error cost are modelled from their contract.  Sigmoid and the   *)
(* cross-entropy cost have no exact integer arithmetic, so networks that   *)
(* use them take part in construction, addressing and training, but no     *)
(* propagation is evaluated on them.                                       *)
(***************************************************************************)
EXTENDS Integers, Sequences, FiniteSets, TLC

VARIABLES layers, weights, criterion, built, pc, last

vars == <<layers, weights, criterion, built, pc, last>>

\* ---------------------------------------------------------------- bounds
MaxSize == 2        \* largest layer size handed to Linear / mlp
MaxVal == 1         \* parameter values are 0..MaxVal
MaxLayers == 2      \* add_layer is called on stacks of fewer layers than this
MaxExtra == 1       \* how far a vector's length may be from the sum of num_params

\* longest layer_sizes slice handed to mlp / default, which push two layers for
\* each pair of adjacent sizes: stacks of at most MaxLayers + 2 layers
MaxSizes == ((MaxLayers + 2) \div 2) + 1

Sizes == 1..MaxSize
Vals == 0..MaxVal

\* ------------------------------------------------------------- utilities
RECURSIVE SumTo(_, _)
SumTo(f, n) == IF n = 0 THEN 0 ELSE f[n] + SumTo(f, n - 1)

\* layer_sizes slices (input, hidden and output size), all sizes equal as in &[3; 4]
SizeSeqs(S, n) == {[j \in 1..k |-> size] : k \in 2..n, size \in S}

\* the sequence f[1], .., f[n]
Tab(f, n) == SubSeq(f, 1, n)

\* ------------------------------------------------------ Matrix<f64> values
\* Matrix::new(rows, cols, data), data in row-major order
Mat(r, c, d) == [rows |-> r, cols |-> c, data |-> Tab(d, r * c)]

At(m, r, c) == m.data[(r - 1) * m.cols + c]

MatMul(a, b) ==
    Mat(a.rows, b.cols,
        [k \in 1..(a.rows * b.cols) |->
            LET r == ((k - 1) \div b.cols) + 1
                c == ((k - 1) % b.cols) + 1
            IN  SumTo([j \in 1..a.cols |-> At(a, r, j) * At(b, j, c)], a.cols)])

Transpose(a) ==
    Mat(a.cols, a.rows,
        [k \in 1..(a.rows * a.cols) |->
            At(a, ((k - 1) % a.rows) + 1, ((k - 1) \div a.rows) + 1)])

\* Matrix::ones(rows, 1).hcat(input)
HcatOnes(a) ==
    Mat(a.rows, a.cols + 1,
        [k \in 1..(a.rows * (a.cols + 1)) |->
            LET r == ((k - 1) \div (a.cols + 1)) + 1
                c == ((k - 1) % (a.cols + 1)) + 1
            IN  IF c = 1 THEN 1 ELSE At(a, r, c - 1)])

\* the rows 1.. of a view (its first row is the bias row)
DropFirstRow(a) ==
    Mat(a.rows - 1, a.cols, [k \in 1..((a.rows - 1) * a.cols) |-> a.data[k + a.cols]])

\* ------------------------------------------------------------ NetLayer
LinearWithBias(i, o) ==
    [kind |-> "Linear", input_size |-> i, output_size |-> o, has_bias |-> TRUE, act |-> "none"]

LinearWithoutBias(i, o) ==
    [kind |-> "Linear", input_size |-> i, output_size |-> o, has_bias |-> FALSE, act |-> "none"]

ActivLayer(a) ==
    [kind |-> "Activ", input_size |-> 0, output_size |-> 0, has_bias |-> FALSE, act |-> a]

param_shape(l) ==
    IF l.kind = "Linear"
    THEN <<l.input_size + (IF l.has_bias THEN 1 ELSE 0), l.output_size>>
    ELSE <<0, 0>>

num_params(l) == param_shape(l)[1] * param_shape(l)[2]

\* the vectors default_params may return: num_params values drawn at random
\* (here every draw of one call gives the same value)
default_params(l) == {[k \in 1..num_params(l) |-> v] : v \in Vals}

\* activ_fn::Linear is the identity, with derivative 1
ActFunc(a, x) == CASE a = "Linear" -> x
ActFuncGrad(a, x) == CASE a = "Linear" -> 1

forward(l, input, params) ==
    IF l.kind = "Linear"
    THEN MatMul(IF l.has_bias THEN HcatOnes(input) ELSE input, params)
    ELSE Mat(input.rows, input.cols,
             [k \in 1..(input.rows * input.cols) |-> ActFunc(l.act, input.data[k])])

back_params(l, out_grad, input, params) ==
    IF l.kind = "Linear"
    THEN MatMul(Transpose(IF l.has_bias THEN HcatOnes(input) ELSE input), out_grad)
    ELSE Mat(0, 0, <<>>)

back_input(l, out_grad, input, params) ==
    IF l.kind = "Linear"
    THEN MatMul(out_grad, Transpose(IF l.has_bias THEN DropFirstRow(params) ELSE params))
    ELSE Mat(input.rows, input.cols,
             [k \in 1..(input.rows * input.cols) |->
                 ActFuncGrad(l.act, input.data[k]) * out_grad.data[k]])

\* --------------------------------------------------------------- Criterion
Regularizations ==
    {[kind |-> "None", lambda |-> 0], [kind |-> "L1", lambda |-> 1], [kind |-> "L2", lambda |-> 1]}

MSECriterion(reg) == [cost |-> "MeanSqError", act |-> "Linear", regularization |-> reg]
BCECriterion(reg) == [cost |-> "CrossEntropyError", act |-> "Sigmoid", regularization |-> reg]

\* squared error summed over the elements
cost(crit, outputs, targets) ==
    SumTo([k \in 1..Len(outputs.data) |->
              (outputs.data[k] - targets.data[k]) * (outputs.data[k] - targets.data[k])],
          Len(outputs.data))

cost_grad(crit, outputs, targets) ==
    Mat(outputs.rows, outputs.cols,
        [k \in 1..Len(outputs.data) |-> 2 * (outputs.data[k] - targets.data[k])])

Abs(x) == IF x < 0 THEN -x ELSE x

reg_cost(crit, w) ==
    IF crit.regularization.kind = "L1"
    THEN crit.regularization.lambda * SumTo([k \in 1..Len(w) |-> Abs(w[k])], Len(w))
    ELSE IF crit.regularization.kind = "L2"
    THEN crit.regularization.lambda * SumTo([k \in 1..Len(w) |-> w[k] * w[k]], Len(w))
    ELSE 0

\* ------------------------------------------------------ layer stack helpers
\* sum of num_params over ls[1..n]
RECURSIVE ParamsUpTo(_, _)
ParamsUpTo(ls, n) == IF n = 0 THEN 0 ELSE num_params(ls[n]) + ParamsUpTo(ls, n - 1)

TotalParams(ls) == ParamsUpTo(ls, Len(ls))

\* width of the input the stack accepts (0: any) and of the output it produces
RECURSIVE NetIn(_, _)
NetIn(ls, i) ==
    IF i > Len(ls) THEN 0
    ELSE IF ls[i].kind = "Linear" THEN ls[i].input_size ELSE NetIn(ls, i + 1)

RECURSIVE NetOut(_, _)
NetOut(ls, i) ==
    IF i = 0 THEN 0
    ELSE IF ls[i].kind = "Linear" THEN ls[i].output_size ELSE NetOut(ls, i - 1)

\* every activation and the cost have exact integer arithmetic
Exact(ls, crit) ==
    /\ crit.cost = "MeanSqError"
    /\ \A i \in 1..Len(ls) : ls[i].kind = "Activ" => ls[i].act = "Linear"

\* MatrixSlice::from_raw_parts(w.as_ptr().offset(off), rows, cols, cols): the
\* values the view exposes.  A read past the end of w is undefined behaviour
\* and yields the value g holds for that address.
from_raw_parts(w, off, rows, cols, g) ==
    Mat(rows, cols,
        [k \in 1..(rows * cols) |->
            IF off + k <= Len(w) THEN w[off + k] ELSE g[off + k - Len(w)]])


\* the values undefined reads can produce in one call
Garbage == [1..MaxExtra -> Vals]
NoGarbage == [k \in 1..MaxExtra |-> 0]

\* ------------------------------------------------------- BaseNeuralNet
\* get_layer_weights with the offset summed over the layers after the first
get_layer_weights_skip_first(ls, w, idx, debug) ==
    IF idx >= Len(ls) \/ (debug /\ TotalParams(ls) # Len(w))
    THEN [status |-> "panic", start |-> 0, rows |-> 0, cols |-> 0, stride |-> 0]
    ELSE [status |-> "ok",
          start |-> IF idx = 0 THEN 0 ELSE ParamsUpTo(ls, idx) - num_params(ls[1]),
          rows |-> param_shape(ls[idx + 1])[1],
          cols |-> param_shape(ls[idx + 1])[2],
          stride |-> param_shape(ls[idx + 1])[2]]

\* get_layer_weights(weights, idx), idx counted from 0: the view's offset into
\* weights and its shape.  debug: whether debug assertions are compiled in.
get_layer_weights(ls, w, idx, debug) ==
    IF idx >= Len(ls) \/ (debug /\ TotalParams(ls) # Len(w))
    THEN [status |-> "panic", start |-> 0, rows |-> 0, cols |-> 0, stride |-> 0]
    ELSE [status |-> "ok",
          start |-> ParamsUpTo(ls, idx),
          rows |-> param_shape(ls[idx + 1])[1],
          cols |-> param_shape(ls[idx + 1])[2],
          stride |-> param_shape(ls[idx + 1])[2]]

\* the elements of w a view covers
ViewData(w, v) == Tab([k \in 1..(v.rows * v.cols) |-> w[v.start + k]], v.rows * v.cols)

\* compute_grad, the gradient buffer: weights.len() elements, none yet written
InitGradients(w, g) ==
    Tab([k \in 1..Len(w) |-> [v |-> g[((k - 1) % MaxExtra) + 1], n |-> 0]], Len(w))

\* compute_grad, forward propagation: the activation trace, the offset used
\* for each layer and the running index at the end
RECURSIVE CGForward(_, _, _, _, _, _, _)
CGForward(ls, w, g, activations, offs, index, i) ==
    IF i > Len(ls)
    THEN [activations |-> activations, offs |-> offs, index |-> index]
    ELSE LET shape == param_shape(ls[i])
             slice == from_raw_parts(w, index, shape[1], shape[2], g)
             output == forward(ls[i], activations[Len(activations)], slice)
         IN  CGForward(ls, w, g, Append(activations, output), Append(offs, index),
                       index + num_params(ls[i]), i + 1)

\* compute_grad, backward propagation over layers i, i-1, .., 1; visited is the
\* sequence of the (0-based) layer indices the loop has taken so far
RECURSIVE CGBackward(_, _, _, _, _, _, _, _, _, _)
CGBackward(ls, w, g, activations, i, index, out_grad, gradients, offs, visited) ==
    IF i = 0
    THEN [status |-> "ok", gradients |-> gradients, index |-> index, offs |-> offs,
          visited |-> visited]
    ELSE LET index2 == index - num_params(ls[i])
             shape == param_shape(ls[i])
             slice == from_raw_parts(w, index2, shape[1], shape[2], g)
             grad_params == back_params(ls[i], out_grad, activations[i], slice)
             out_grad2 == back_input(ls[i], out_grad, activations[i], slice)
         IN  IF index2 + num_params(ls[i]) > Len(gradients)
             THEN [status |-> "panic", gradients |-> gradients, index |-> index2,
                   offs |-> Append(offs, index2), visited |-> Append(visited, i - 1)]
             ELSE CGBackward(ls, w, g, activations, i - 1, index2, out_grad2,
                     Tab([k \in 1..Len(gradients) |->
                             IF k > index2 /\ k <= index2 + num_params(ls[i])
                             THEN [v |-> grad_params.data[k - index2],
                                   n |-> gradients[k].n + 1]
                             ELSE gradients[k]],
                         Len(gradients)),
                     Append(offs, index2), Append(visited, i - 1))

\* a cost that adds the criterion's regularization cost of the parameters
CGCostRegularized(crit, w, output, targets) == cost(crit, output, targets) + reg_cost(crit, w)

\* compute_grad, the returned cost
CGCost(crit, w, output, targets) == cost(crit, output, targets)

compute_grad(ls, crit, w, inputs, targets, g) ==
    LET fwd == CGForward(ls, w, g, <<inputs>>, <<>>, 0, 1)
        output == fwd.activations[Len(fwd.activations)]
        bwd == CGBackward(ls, w, g, fwd.activations, Len(ls), fwd.index,
                          cost_grad(crit, output, targets), InitGradients(w, g), <<>>, <<>>)
    IN  IF bwd.status = "panic"
        THEN [status |-> "panic", cost |-> 0, grad |-> <<>>, out |-> Mat(0, 0, <<>>),
              offs |-> fwd.offs, boffs |-> bwd.offs, iters |-> Len(fwd.offs),
              visited |-> bwd.visited, bstart |-> fwd.index, bend |-> bwd.index]
        ELSE [status |-> "ok", cost |-> CGCost(crit, w, output, targets),
              grad |-> bwd.gradients, out |-> output,
              offs |-> fwd.offs, boffs |-> bwd.offs, iters |-> Len(fwd.offs),
              visited |-> bwd.visited, bstart |-> fwd.index, bend |-> bwd.index]

\* the layers (from 1) whose parameter view in compute_grad extends past the
\* end of w: reading such a view is undefined behaviour
CGReadsPastEnd(ls, w) ==
    {i \in 1..Len(ls) : num_params(ls[i]) > 0 /\ ParamsUpTo(ls, i) > Len(w)}

\* compute_grad when the read of layer i's view is a memory fault: the forward
\* calls of the layers before i have completed, the process is killed and
\* nothing is returned
compute_grad_killed(ls, w, i) ==
    [status |-> "crash", cost |-> 0, grad |-> <<>>, out |-> Mat(0, 0, <<>>),
     offs |-> Tab([j \in 1..(i - 1) |-> ParamsUpTo(ls, j - 1)], i - 1),
     boffs |-> <<>>, iters |-> i - 1, visited |-> <<>>, bstart |-> 0, bend |-> 0]

\* one run of compute_grad.  fault = 0: every read completes, a read past the
\* end of w yielding what g holds; fault = i: the read of layer i's view, which
\* extends past the end of w, kills the process
compute_grad_run(ls, crit, w, inputs, targets, g, fault) ==
    IF fault = 0
    THEN compute_grad(ls, crit, w, inputs, targets, g)
    ELSE compute_grad_killed(ls, w, fault)

\* forward_prop, the loop over the layers after the first
RECURSIVE FPLoop(_, _, _, _, _, _, _)
FPLoop(ls, w, g, outputs, offs, index, i) ==
    IF i > Len(ls)
    THEN [out |-> outputs, offs |-> offs]
    ELSE LET shape == param_shape(ls[i])
             slice == from_raw_parts(w, index, shape[1], shape[2], g)
         IN  FPLoop(ls, w, g, forward(ls[i], outputs, slice), Append(offs, index),
                    index + num_params(ls[i]), i + 1)

forward_prop(ls, w, inputs, g) ==
    IF Len(ls) = 0
    THEN [out |-> inputs, offs |-> <<>>]
    ELSE LET shape == param_shape(ls[1])
             slice == from_raw_parts(w, 0, shape[1], shape[2], g)
         IN  FPLoop(ls, w, g, forward(ls[1], inputs, slice), <<0>>, 0, 2)

\* whether forward_prop reads past the end of w
FPReadsPastEnd(ls, w) ==
    LET offs == forward_prop(ls, w, Mat(0, 0, <<>>), NoGarbage).offs
    IN  \E i \in 1..Len(ls) : offs[i] + num_params(ls[i]) > Len(w)

\* add_layer: the layers and the weights after appending layer, whose
\* default_params call returned p
add_layer(net, layer, p) ==
    [layers |-> Append(net.layers, layer), weights |-> net.weights \o Tab(p, num_params(layer))]

\* BaseNeuralNet::new
new == [layers |-> <<>>, weights |-> <<>>]

\* mlp, from window k of layer_sizes on; rnd[k] is the value the default_params
\* call of the k-th Linear layer draws
RECURSIVE MlpFrom(_, _, _, _, _)
MlpFrom(net, layer_sizes, activ_fn, rnd, k) ==
    IF k + 1 > Len(layer_sizes)
    THEN net
    ELSE LET lin == LinearWithBias(layer_sizes[k], layer_sizes[k + 1])
             n1 == add_layer(net, lin, [j \in 1..num_params(lin) |-> rnd[k]])
             n2 == add_layer(n1, ActivLayer(activ_fn), <<>>)
         IN  MlpFrom(n2, layer_sizes, activ_fn, rnd, k + 1)

mlp(layer_sizes, activ_fn, rnd) == MlpFrom(new, layer_sizes, activ_fn, rnd, 1)

\* ------------------------------------------------------------ input sets
\* layers of as many outputs as inputs
LayerChoices ==
    {LinearWithBias(n, n) : n \in Sizes}
    \cup {LinearWithoutBias(n, n) : n \in Sizes}
    \cup {ActivLayer("Linear")}

Criteria == {MSECriterion(r) : r \in Regularizations}

\* a layer whose input width fits the output width of the stack
Compatible(ls, l) ==
    l.kind = "Activ" \/ NetOut(ls, Len(ls)) = 0 \/ l.input_size = NetOut(ls, Len(ls))

\* one-row matrices of ones, of the width the stack accepts
InputMats(ls) ==
    {Mat(1, c, [k \in 1..c |-> 1]) : c \in (IF NetIn(ls, 1) = 0 THEN Sizes ELSE {NetIn(ls, 1)})}

\* one-row matrices of the width the stack produces from inputs
TargetMats(ls, inputs) ==
    LET c == IF NetOut(ls, Len(ls)) = 0 THEN inputs.cols ELSE NetOut(ls, Len(ls))
    IN  {Mat(1, c, [k \in 1..c |-> v]) : v \in {0, 1}}

\* the vectors an optimizer started at start explores and returns
OptimVectors(start, total) ==
    {start}
    \cup (IF Len(start) > 0 /\ Len(start) > total - MaxExtra
          THEN {SubSeq(start, 1, Len(start) - 1)} ELSE {})
    \cup (IF Len(start) < total + MaxExtra
          THEN {Append(start, MaxVal)} ELSE {})

NoMat == Mat(0, 0, <<>>)

NoView == [status |-> "none", start |-> 0, rows |-> 0, cols |-> 0, stride |-> 0]

\* the record of the latest call and what it returned
NoCall ==
    [op |-> "none", status |-> "ok", idx |-> 0, cand |-> <<>>, inputs |-> NoMat,
     targets |-> NoMat, out |-> NoMat, cost |-> 0, grad |-> <<>>, offs |-> <<>>,
     boffs |-> <<>>, iters |-> 0, view |-> NoView, start |-> <<>>, ret |-> <<>>,
     visited |-> <<>>, bstart |-> 0, bend |-> 0]

\* ------------------------------------------------------------------ Init
\* NeuralNet::new(criterion, alg)
InitNew ==
    \E crit \in Criteria :
        /\ layers = new.layers
        /\ weights = new.weights
        /\ criterion = crit
        /\ built = [ctor |-> "new", layer_sizes |-> <<>>, added |-> FALSE]

\* NeuralNet::mlp(layer_sizes, criterion, alg, activ_fn)
InitMlp ==
    \E layer_sizes \in SizeSeqs(Sizes, MaxSizes), crit \in Criteria, activ_fn \in {"Linear"} :
        /\ \E rnd \in [1..(Len(layer_sizes) - 1) -> Vals] :
              /\ layers = mlp(layer_sizes, activ_fn, rnd).layers
              /\ weights = mlp(layer_sizes, activ_fn, rnd).weights
        /\ criterion = crit
        /\ built = [ctor |-> "mlp", layer_sizes |-> layer_sizes, added |-> FALSE]

\* NeuralNet::default(layer_sizes)
InitDefault ==
    \E layer_sizes \in SizeSeqs(Sizes, MaxSizes) :
        /\ \E rnd \in [1..(Len(layer_sizes) - 1) -> Vals] :
              /\ layers = mlp(layer_sizes, "Sigmoid", rnd).layers
              /\ weights = mlp(layer_sizes, "Sigmoid", rnd).weights
        /\ criterion = BCECriterion([kind |-> "None", lambda |-> 0])
        /\ built = [ctor |-> "default", layer_sizes |-> layer_sizes, added |-> FALSE]

Init ==
    /\ (InitNew \/ InitMlp \/ InitDefault)
    /\ pc = "idle"
    /\ last = NoCall

\* --------------------------------------------------------------- actions
\* NeuralNet::add_layer
AddLayer ==
    /\ pc = "idle"
    /\ Len(layers) < MaxLayers
    /\ \E l \in LayerChoices :
          /\ Compatible(layers, l)
          /\ \E p \in default_params(l) :
                LET net == add_layer([layers |-> layers, weights |-> weights], l, p)
                IN  /\ layers' = net.layers
                    /\ weights' = net.weights
    /\ built' = [ctor |-> "new", layer_sizes |-> <<>>, added |-> TRUE]
    /\ last' = [NoCall EXCEPT !.op = "add_layer"]
    /\ UNCHANGED <<criterion, pc>>

\* NeuralNet::get_net_weights(idx)
GetNetWeights ==
    /\ pc = "idle"
    /\ \E idx \in 0..Len(layers), debug \in BOOLEAN :
          \E v \in {get_layer_weights(layers, weights, idx, debug)} :
              /\ last' = [NoCall EXCEPT !.op = "get_net_weights", !.idx = idx,
                                        !.status = v.status, !.view = v]
              /\ pc' = IF v.status = "panic" THEN "panicked" ELSE "idle"
    /\ UNCHANGED <<layers, weights, criterion, built>>

\* SupModel::predict: forward_prop on the stored weights.  A read past the end
\* of the weights is undefined: the call crashes or goes on with what it read.
Predict ==
    /\ pc = "idle"
    /\ Exact(layers, criterion)
    /\ \E inputs \in InputMats(layers), crash \in BOOLEAN,
          g \in (IF FPReadsPastEnd(layers, weights) THEN Garbage ELSE {NoGarbage}) :
          \E r \in {forward_prop(layers, weights, inputs, g)} :
              /\ crash => FPReadsPastEnd(layers, weights)
              /\ last' = IF crash
                         THEN [NoCall EXCEPT !.op = "predict", !.status = "crash",
                                             !.inputs = inputs]
                         ELSE [NoCall EXCEPT !.op = "predict", !.inputs = inputs,
                                             !.out = r.out, !.offs = r.offs]
              /\ pc' = IF crash THEN "panicked" ELSE "idle"
    /\ UNCHANGED <<layers, weights, criterion, built>>

\* SupModel::train, entry: alg.optimize(&self.base, &self.base.weights, inputs, targets)
TrainBegin ==
    /\ pc = "idle"
    /\ \E inputs \in InputMats(layers) :
          \E targets \in TargetMats(layers, inputs) :
              last' = [NoCall EXCEPT !.op = "optimize", !.inputs = inputs,
                                     !.targets = targets, !.start = weights]
    /\ pc' = "optimizing"
    /\ UNCHANGED <<layers, weights, criterion, built>>

\* a compute_grad that stores the candidate parameters in the network
OptimizerCallStoring ==
    /\ pc = "optimizing"
    /\ Exact(layers, criterion)
    /\ \E cand \in OptimVectors(weights, TotalParams(layers)) :
       \E g \in (IF Len(cand) # TotalParams(layers) THEN Garbage ELSE {NoGarbage}),
          fault \in {0} \cup CGReadsPastEnd(layers, cand) :
          \E r \in {compute_grad_run(layers, criterion, cand, last.inputs, last.targets,
                                     g, fault)} :
              /\ last' = [last EXCEPT !.op = "compute_grad", !.status = r.status,
                                      !.cand = cand, !.cost = r.cost, !.grad = r.grad,
                                      !.out = r.out, !.offs = r.offs, !.boffs = r.boffs,
                                      !.iters = r.iters, !.visited = r.visited,
                                      !.bstart = r.bstart, !.bend = r.bend]
              /\ pc' = IF r.status = "ok" THEN "optimizing" ELSE "panicked"
              /\ weights' = cand
    /\ UNCHANGED <<layers, criterion, built>>

\* Optimizable::compute_grad(params, inputs, targets), called by the optimizer.
\* A candidate shorter than the sum of num_params makes the forward pass read
\* past its end: the read kills the process or the call goes on with what it
\* read.
OptimizerCall ==
    /\ pc = "optimizing"
    /\ Exact(layers, criterion)
    /\ \E cand \in OptimVectors(weights, TotalParams(layers)) :
       \E g \in (IF Len(cand) # TotalParams(layers) THEN Garbage ELSE {NoGarbage}),
          fault \in {0} \cup CGReadsPastEnd(layers, cand) :
          \E r \in {compute_grad_run(layers, criterion, cand, last.inputs, last.targets,
                                     g, fault)} :
              /\ last' = [last EXCEPT !.op = "compute_grad", !.status = r.status,
                                      !.cand = cand, !.cost = r.cost, !.grad = r.grad,
                                      !.out = r.out, !.offs = r.offs, !.boffs = r.boffs,
                                      !.iters = r.iters, !.visited = r.visited,
                                      !.bstart = r.bstart, !.bend = r.bend]
              /\ pc' = IF r.status = "ok" THEN "optimizing" ELSE "panicked"
    /\ UNCHANGED <<layers, weights, criterion, built>>

\* SupModel::train, exit: self.base.weights = optimal_w
TrainEnd ==
    /\ pc = "optimizing"
    /\ \E optimal_w \in OptimVectors(weights, TotalParams(layers)) :
          /\ weights' = optimal_w
          /\ last' = [NoCall EXCEPT !.op = "train", !.start = weights, !.ret = optimal_w]
    /\ pc' = "idle"
    /\ UNCHANGED <<layers, criterion, built>>

Next ==
    \/ AddLayer
    \/ GetNetWeights
    \/ Predict
    \/ TrainBegin
    \/ OptimizerCall
    \/ TrainEnd

Spec == Init /\ [][Next]_vars

\* construction and parameter addressing only
NextViews ==
    \/ AddLayer
    \/ GetNetWeights

SpecViews == Init /\ [][NextViews]_vars

\* prediction and training of a network as constructed
NextTrain ==
    \/ Predict
    \/ TrainBegin
    \/ OptimizerCall
    \/ TrainEnd

SpecTrain == Init /\ [][NextTrain]_vars

TypeOK ==
    /\ pc \in {"idle", "optimizing", "panicked"}
    /\ Len(layers) <= MaxLayers + 2 * MaxSizes

\* ---------------------------------------------------------------- claims
\* the output of the stack when layer i is given the view get_layer_weights
\* returns for it
RECURSIVE ViewChain(_, _, _, _)
ViewChain(ls, w, x, i) ==
    IF i > Len(ls) THEN x
    ELSE LET v == get_layer_weights(ls, w, i - 1, FALSE)
         IN  ViewChain(ls, w, forward(ls[i], x, Mat(v.rows, v.cols, ViewData(w, v))), i + 1)

Matching == Len(weights) = TotalParams(layers)

\* C1: forward_prop gives every layer i the parameter view that starts at the
\* sum of num_params of the layers before it, the view get_layer_weights(weights, i)
\* returns, and chains the layers' forward transforms over those views.  (The
\* offset of a view of no elements is not compared.)
C1_ForwardPropUsesLayerViews ==
    (last.op = "predict" /\ last.status = "ok" /\ Matching /\ Len(layers) >= 1) =>
        /\ \A i \in 1..Len(layers) :
              num_params(layers[i]) > 0 =>
                  last.offs[i] = get_layer_weights(layers, weights, i - 1, FALSE).start
        /\ last.out = ViewChain(layers, weights, last.inputs, 1)

\* C2: with stored weights of matching length, the criterion's cost of
\* forward_prop(inputs) equals the cost compute_grad(weights, inputs, targets)
\* returns, and forward_prop's output is the last element of compute_grad's
\* activation trace.
C2_ForwardCostEqualsGradCost ==
    (last.op = "compute_grad" /\ last.status = "ok" /\ last.cand = weights /\ Matching) =>
        LET fp == forward_prop(layers, weights, last.inputs, NoGarbage)
        IN  /\ fp.out = last.out
            /\ cost(criterion, fp.out, last.targets) = last.cost

\* C3: in every reachable state the stored parameter vector is as long as the
\* sum of num_params over the stored layers.
C3_WeightsLengthIsSumOfParams == Len(weights) = TotalParams(layers)

\* C4: compute_grad on a candidate whose length differs from the sum of the
\* layers' num_params fails before any layer is addressed and returns nothing.
C4_LengthMismatchFailsFast ==
    (last.op = "compute_grad" /\ Len(last.cand) # TotalParams(layers)) =>
        (last.status = "panic" /\ last.iters = 0)

\* the views of all the layers, in layer order
LayerViews(ls, w, debug) == [i \in 1..Len(ls) |-> get_layer_weights(ls, w, i - 1, debug)]

RECURSIVE ConcatViews(_, _, _)
ConcatViews(w, views, n) ==
    IF n = 0 THEN <<>> ELSE ConcatViews(w, views, n - 1) \o ViewData(w, views[n])

\* C5: when the weights are as long as the sum of num_params, the views of
\* layers 0..num_layers-1 are contiguous, disjoint ranges of extent rows*cols =
\* the layer's param_shape, and their concatenation in index order is weights.
C5_ViewsPartitionWeights ==
    Matching =>
        \A debug \in BOOLEAN :
            LET views == LayerViews(layers, weights, debug)
            IN  /\ \A i \in 1..Len(layers) :
                      /\ views[i].status = "ok"
                      /\ <<views[i].rows, views[i].cols>> = param_shape(layers[i])
                      /\ views[i].stride = views[i].cols
                      /\ views[i].start =
                            IF i = 1 THEN 0
                            ELSE views[i - 1].start + views[i - 1].rows * views[i - 1].cols
                      /\ views[i].start + views[i].rows * views[i].cols <= Len(weights)
                /\ \A i, j \in 1..Len(layers) :
                      i < j => views[i].start + views[i].rows * views[i].cols <= views[j].start
                /\ ConcatViews(weights, views, Len(layers)) = weights
                /\ (last.op = "get_net_weights" /\ last.status = "ok") =>
                      last.view = views[last.idx + 1]

C5_Witness ==
    /\ Matching
    /\ last.op = "get_net_weights"
    /\ last.status = "ok"
    /\ last.idx >= 1
    /\ last.view.start > 0
    /\ last.view.rows * last.view.cols > 0
    /\ \E i, j \in 1..Len(weights) : weights[i] # weights[j]

\* C6: the gradient compute_grad returns is as long as the parameters it was
\* given and each of its indices was written exactly once.
C6_GradientWrittenExactlyOnce ==
    (last.op = "compute_grad" /\ last.status = "ok") =>
        /\ Len(last.grad) = Len(last.cand)
        /\ \A k \in 1..Len(last.grad) : last.grad[k].n = 1

\* C7: for a network built by default/mlp from layer_sizes, get_net_weights(idx)
\* has layer_sizes[idx]+1 rows and layer_sizes[idx+1] columns (indices from 0)
\* for every idx < len(layer_sizes)-1.
C7_NetWeightsBetweenSizeLayers ==
    (/\ last.op = "get_net_weights"
     /\ built.ctor \in {"mlp", "default"}
     /\ Matching
     /\ last.idx < Len(built.layer_sizes) - 1) =>
        /\ last.status = "ok"
        /\ last.view.rows = built.layer_sizes[last.idx + 1] + 1
        /\ last.view.cols = built.layer_sizes[last.idx + 2]

\* C8: on an empty layer stack compute_grad returns the criterion's
\* cost of inputs and targets and an empty gradient, without iterating, for
\* any candidate parameter vector.
C8_EmptyStackEmptyGradient ==
    (last.op = "compute_grad" /\ layers = <<>>) =>
        /\ last.status = "ok"
        /\ last.cost = cost(criterion, last.inputs, last.targets)
        /\ last.iters = 0
        /\ last.grad = <<>>

\* C9: no compute_grad or predict call changes the stored layers or weights;
\* during train the stored weights stay as they were at its start across all
\* the compute_grad calls, and are replaced once, at its end, by the vector
\* the optimizer returns.
C9_PropagationLeavesNetUnchanged ==
    [][/\ (last' # last /\ last'.op \in {"compute_grad", "predict"}) =>
              (layers' = layers /\ weights' = weights)
       /\ (pc = "optimizing" /\ pc' # "idle") =>
              (layers' = layers /\ weights' = weights /\ weights' = last'.start)
       /\ (pc = "optimizing" /\ pc' = "idle") =>
              (layers' = layers /\ last'.op = "train" /\ last'.start = weights
               /\ weights' = last'.ret)]_vars

C9_Witness ==
    /\ pc = "optimizing"
    /\ last.op = "compute_grad"
    /\ last.status = "ok"
    /\ last.cand # weights
    /\ weights = last.start

\* C10: the cost and the gradient compute_grad returns are the same whatever
\* the criterion's regularization is: None, L1(lambda) or L2(lambda).
C10_ResultIndependentOfRegularization ==
    (last.op = "compute_grad") =>
        \A r \in Regularizations :
            \E g \in Garbage, fault \in {0} \cup CGReadsPastEnd(layers, last.cand) :
                LET res == compute_grad_run(layers, [criterion EXCEPT !.regularization = r],
                                            last.cand, last.inputs, last.targets, g, fault)
                IN  /\ res.status = last.status
                    /\ res.cost = last.cost
                    /\ res.grad = last.grad

C10_Witness ==
    /\ last.op = "compute_grad"
    /\ last.status = "ok"
    /\ criterion.regularization.kind = "L2"
    /\ Len(layers) >= 2
    /\ \E k \in 1..Len(last.cand) : last.cand[k] # 0
    /\ \E k \in 1..Len(last.grad) : last.grad[k].v # 0

\* the out_grad in force when the backward pass reaches layer i (from 1):
\* cost_grad of the output at the last layer, below it back_input of layer
\* i + 1 on the out_grad in force there, the input of that layer and the
\* parameter view at the offset the forward pass used for it
RECURSIVE OutGradBefore(_, _, _, _, _, _, _)
OutGradBefore(ls, crit, w, acts, offs, targets, i) ==
    IF i >= Len(ls)
    THEN cost_grad(crit, acts[Len(acts)], targets)
    ELSE LET shape == param_shape(ls[i + 1])
             view == from_raw_parts(w, offs[i + 1], shape[1], shape[2], NoGarbage)
         IN  back_input(ls[i + 1],
                        OutGradBefore(ls, crit, w, acts, offs, targets, i + 1),
                        acts[i + 1], view)

\* C11: in a compute_grad call that returns, the backward pass visits the
\* layers in strictly decreasing index order from the last to the first; at
\* layer i back_params and back_input see the out_grad in force before layer
\* i's update, activations[i] and the parameter view at the offset the forward
\* pass used for layer i; the parameter gradient is written at that offset and
\* extent; the running index is weights.len() when the backward pass starts
\* and 0 when it ends.
C11_BackwardPassMirrorsForwardPass ==
    (last.op = "compute_grad" /\ last.status = "ok") =>
        LET n == Len(layers)
            acts == CGForward(layers, last.cand, NoGarbage, <<last.inputs>>, <<>>, 0, 1).activations
        IN  /\ Len(last.visited) = n
            /\ \A j \in 1..n : last.visited[j] = n - j
            /\ Len(last.boffs) = n
            /\ \A j \in 1..n : last.boffs[j] = last.offs[n - j + 1]
            /\ \A i \in 1..n :
                  LET shape == param_shape(layers[i])
                      view == from_raw_parts(last.cand, last.offs[i], shape[1], shape[2],
                                             NoGarbage)
                      out_grad == OutGradBefore(layers, criterion, last.cand, acts,
                                                last.offs, last.targets, i)
                      grad_params == back_params(layers[i], out_grad, acts[i], view)
                  IN  \A k \in 1..num_params(layers[i]) :
                         /\ last.grad[last.offs[i] + k].v = grad_params.data[k]
                         /\ last.grad[last.offs[i] + k].n = 1
            /\ last.bstart = Len(last.cand)
            /\ last.bend = 0
====
